---- MODULE Spec2Model ----
(***************************************************************************)
(* Model of the job-listing pipeline of src/scraper.py (JobsScraper: two   *)
(* RapidAPI sources, normalisation, de-duplication, JSON file, Supabase)   *)
(* and src/linkedin.py (scrape_linkedin_jobs: browser scrape, JSON file,   *)
(* Supabase).                                                              *)
(*                                                                         *)
(* Python values are modelled as follows.                                  *)
(*   None          [tag |-> "None", s |-> <<>>]                            *)
(*   a str         [tag |-> "str",  s |-> <<c1, ..., cn>>], one-character  *)
(*                 strings c1..cn                                          *)
(*   a dict        a function whose DOMAIN is the set of keys present      *)
(*   a list        a sequence                                              *)
(* An operation that can raise returns [raised |-> BOOLEAN, value |-> _].  *)
(***************************************************************************)
EXTENDS Integers, Sequences, FiniteSets, TLC

VARIABLES
    entry,          \* which program runs: "scraper" or "linkedin"
    pc,             \* position of the program
    env,            \* which of SUPABASE_URL / SUPABASE_KEY are set
    supabase,       \* the remote client: "unset", "None" or "client"
    qi,             \* index of the loop of a fetch (query, or DOM item)
    resp,           \* the response (or DOM result) being handled
    jobs,           \* the list a fetch accumulates (jobs / scraped_jobs)
    all_jobs,       \* run's all_jobs
    log,            \* requests and delays issued by _fetch_jsearch_jobs
    outcome,        \* "running", "returned" or "raised"
    file,           \* the output file: NoFile or its JSON document
    sinkCalls,      \* the sinks invoked so far, in order, and whether the
                    \* call did its work (the file was written)
    ins,            \* the state of _insert_to_supabase
    arg,            \* the argument of a function called on its own
    ret             \* what that call returned

vars == <<entry, pc, env, supabase, qi, resp, jobs, all_jobs, log, outcome,
          file, sinkCalls, ins, arg, ret>>

-----------------------------------------------------------------------------
(* Python values *)

PyNone == [tag |-> "None", s |-> <<>>]

Str(chars) == [tag |-> "str", s |-> chars]

EmptyStr == Str(<<>>)

\* bool(v) of None or a str
Truthy(v) == v.tag = "str" /\ v.s # <<>>

\* a if a is not None else b
OrNotNone(a, b) == IF a # PyNone THEN a ELSE b

\* a or b
Or(a, b) == IF Truthy(a) THEN a ELSE b

\* d.get(k, default)
Get(d, k, default) == IF k \in DOMAIN d THEN d[k] ELSE default

\* one character of str.lower()
LowerChar(c) ==
    CASE c = "A" -> "a"
      [] c = "B" -> "b"
      [] OTHER -> c

\* str.lower() on the characters of a str
Lower(chars) == [i \in 1..Len(chars) |-> LowerChar(chars[i])]

Min(a, b) == IF a < b THEN a ELSE b

\* the six keys of a normalised listing
Fields == {"logo", "title", "description", "company", "location", "url"}

-----------------------------------------------------------------------------
(* _remove_duplicates *)

Returned(v) == [raised |-> FALSE, value |-> v]

Raised == [raised |-> TRUE, value |-> <<>>]

\* f"{job.get('title', '').lower()}_{job.get('company', '').lower()}"
\* for a job whose title and company are both str
DedupKey(job) ==
    Lower(Get(job, "title", EmptyStr).s) \o <<"_">>
        \o Lower(Get(job, "company", EmptyStr).s)

\* None has no .lower(): the f-string raises AttributeError
KeyRaises(job) ==
    \/ Get(job, "title", EmptyStr).tag # "str"
    \/ Get(job, "company", EmptyStr).tag # "str"

\* the guard of the append
Keeps(key, seen) == key \notin seen /\ key # <<"_">>

\* the for loop, from the i-th job on
RECURSIVE DedupLoop(_, _, _, _)
DedupLoop(js, i, seen, unique_jobs) ==
    IF i > Len(js) THEN Returned(unique_jobs)
    ELSE IF KeyRaises(js[i]) THEN Raised
    ELSE LET key == DedupKey(js[i]) IN
         IF Keeps(key, seen)
         THEN DedupLoop(js, i + 1, seen \cup {key}, Append(unique_jobs, js[i]))
         ELSE DedupLoop(js, i + 1, seen, unique_jobs)

\* duplicates removed from the list while it is iterated over: the listing
\* after a removed one is never examined and stays
RECURSIVE InPlaceLoop(_, _, _, _)
InPlaceLoop(js, i, seen, unique_jobs) ==
    IF i > Len(js) THEN Returned(unique_jobs)
    ELSE IF KeyRaises(js[i]) THEN Raised
    ELSE LET key == DedupKey(js[i]) IN
         IF Keeps(key, seen)
         THEN InPlaceLoop(js, i + 1, seen \cup {key}, Append(unique_jobs, js[i]))
         ELSE IF i + 1 <= Len(js)
         THEN InPlaceLoop(js, i + 2, seen, Append(unique_jobs, js[i + 1]))
         ELSE Returned(unique_jobs)

RemoveDuplicatesInPlace(js) == InPlaceLoop(js, 1, {}, <<>>)

RemoveDuplicates(js) == DedupLoop(js, 1, {}, <<>>)

-----------------------------------------------------------------------------
(* The extractors of scraper.py *)

\* "<" in description
HasMarkup(chars) == \E i \in 1..Len(chars) : chars[i] = "<"

\* BeautifulSoup(description, 'html.parser').get_text(strip=True) on text
\* whose tags are well formed: the characters outside the <...> spans
RECURSIVE GetText(_, _)
GetText(chars, inTag) ==
    IF chars = <<>> THEN <<>>
    ELSE LET c == Head(chars) IN
         IF inTag THEN GetText(Tail(chars), c # ">")
         ELSE IF c = "<" THEN GetText(Tail(chars), TRUE)
         ELSE <<c>> \o GetText(Tail(chars), FALSE)

\* if description and "<" in description: description = soup.get_text(...)
CleanDescription(description) ==
    IF Truthy(description) /\ HasMarkup(description.s)
    THEN Str(GetText(description.s, FALSE))
    ELSE description

\* the only raw item of the model that is no dict is None: None.get raises
IsDict(x) == x # PyNone

\* f"{city}, {country}"
CityCountry(city, country) == Str(city.s \o <<",", " ">> \o country.s)

\* the chain without its job_country branch
JsearchLocationNoCountryBranch(d) ==
    LET job_city == Get(d, "job_city", PyNone)
        job_country == Get(d, "job_country", PyNone) IN
    IF Truthy(job_city) /\ Truthy(job_country)
    THEN CityCountry(job_city, job_country)
    ELSE IF Truthy(job_city) THEN job_city
    ELSE Get(d, "job_location", PyNone)

\* the if / elif chain over job_city and job_country
JsearchLocation(d) ==
    LET job_city == Get(d, "job_city", PyNone)
        job_country == Get(d, "job_country", PyNone) IN
    IF Truthy(job_city) /\ Truthy(job_country)
    THEN CityCountry(job_city, job_country)
    ELSE IF Truthy(job_city) THEN job_city
    ELSE IF Truthy(job_country) THEN job_country
    ELSE Get(d, "job_location", PyNone)

\* job_data.get("job_apply_link", None) or job_data.get("job_google_link", None)
JsearchUrl(d) ==
    Or(Get(d, "job_apply_link", PyNone), Get(d, "job_google_link", PyNone))

\* _parse_jsearch_job: the listing, or None when the body raised
ParseJsearchJob(d) ==
    IF ~IsDict(d) THEN PyNone
    ELSE [f \in Fields |->
            CASE f = "logo" -> Get(d, "employer_logo", PyNone)
              [] f = "title" -> Get(d, "job_title", PyNone)
              [] f = "description" ->
                    CleanDescription(Get(d, "job_description", PyNone))
              [] f = "company" -> Get(d, "employer_name", PyNone)
              [] f = "location" -> JsearchLocation(d)
              [] f = "url" -> JsearchUrl(d)]

\* job_data.get("location", None) or job_data.get("city", None)
ActiveLocation(d) == Or(Get(d, "location", PyNone), Get(d, "city", PyNone))

\* a or b or c over three keys of the raw record
Or3(d, k1, k2, k3) ==
    Or(Or(Get(d, k1, PyNone), Get(d, k2, PyNone)), Get(d, k3, PyNone))

\* _parse_active_jobs_db_job: the listing, or None when the body raised
ParseActiveJobsDbJob(d) ==
    IF ~IsDict(d) THEN PyNone
    ELSE [f \in Fields |->
            CASE f = "logo" ->
                    Or(Get(d, "logo", PyNone), Get(d, "company_logo", PyNone))
              [] f = "title" -> Or3(d, "title", "job_title", "name")
              [] f = "description" ->
                    CleanDescription(Get(d, "description", PyNone))
              [] f = "company" -> Or3(d, "company", "company_name", "employer")
              [] f = "location" -> ActiveLocation(d)
              [] f = "url" -> Or3(d, "url", "link", "job_url")]

\* the loop ended by the first record whose extraction fails
RECURSIVE ParseAllStopsAtFailure(_, _)
ParseAllStopsAtFailure(api_jobs, source) ==
    IF api_jobs = <<>> THEN <<>>
    ELSE LET structured == IF source = "jsearch"
                           THEN ParseJsearchJob(Head(api_jobs))
                           ELSE ParseActiveJobsDbJob(Head(api_jobs)) IN
         IF structured # PyNone
         THEN <<structured>> \o ParseAllStopsAtFailure(Tail(api_jobs), source)
         ELSE <<>>

\* for job in api_jobs: structured_job = parse(job);
\*                      if structured_job: jobs.append(structured_job)
RECURSIVE ParseAll(_, _)
ParseAll(api_jobs, source) ==
    IF api_jobs = <<>> THEN <<>>
    ELSE LET structured == IF source = "jsearch"
                           THEN ParseJsearchJob(Head(api_jobs))
                           ELSE ParseActiveJobsDbJob(Head(api_jobs)) IN
         (IF structured # PyNone THEN <<structured>> ELSE <<>>)
             \o ParseAll(Tail(api_jobs), source)

-----------------------------------------------------------------------------
(* Bounds of the model *)

\* the most raw records (or DOM items) all fetches of one run deliver
MaxFetched == 3

\* the longest list _remove_duplicates is called on by itself
MaxLen == 3

\* the longest list _insert_to_supabase is called on by itself
MaxSinkJobs == 120

-----------------------------------------------------------------------------
(* What the outside world can deliver to one run *)

SeqsUpTo(S, n) == UNION {[1..k -> S] : k \in 0..n}

\* JSearch raw records: complete, without job_title, and a null item
JsearchItems ==
    { ("job_title" :> Str(<<"a">>)) @@ ("employer_name" :> Str(<<"b">>)),
      ("employer_name" :> Str(<<"b">>)),
      PyNone }

\* Active Jobs DB raw records: complete (the same listing as the complete
\* JSearch one up to case), without any company key, and a null item
ActiveItems ==
    { ("title" :> Str(<<"A">>)) @@ ("company" :> Str(<<"b">>)),
      ("title" :> Str(<<"A">>)),
      PyNone }

NoResp == [kind |-> "none", data |-> <<>>]

\* requests.get raised / answered with a status other than 200 / answered
\* 200 with the list under "data"
Responses(items, n) ==
    {[kind |-> "exception", data |-> <<>>], [kind |-> "status", data |-> <<>>]}
        \cup {[kind |-> "ok", data |-> d] : d \in SeqsUpTo(items, n)}

\* the raw records the requests of the log delivered
RECURSIVE Fetched(_)
Fetched(l) ==
    IF l = <<>> THEN 0 ELSE Len(Head(l).resp.data) + Fetched(Tail(l))

-----------------------------------------------------------------------------
(* JobsScraper: __init__ and run *)

\* the for loop of _fetch_jsearch_jobs
Queries ==
    << "data internships", "data scientist internships",
       "software engineering internships", "data engineering internships" >>

NoFile == [exists |-> FALSE, total_jobs |-> 0, jobs |-> <<>>]

\* json.dump(output, f): metadata.total_jobs and jobs
Document(js) == [exists |-> TRUE, total_jobs |-> Len(js), jobs |-> js]

NoInsert == [i |-> 0, total_inserted |-> 0, total_failed |-> 0, attempts |-> <<>>]

\* if not supabase_url or not supabase_key
Unconfigured == ~env.SUPABASE_URL \/ ~env.SUPABASE_KEY

\* JobsScraper.__init__ with the environment unconfigured: raise ValueError
ScraperInitUnconfigured == [pc |-> "done", outcome |-> "raised", supabase |-> "unset"]

\* JobsScraper(): __init__, and then run up to the first fetch
ScraperInit ==
    /\ entry = "scraper" /\ pc = "init"
    /\ LET to == IF Unconfigured THEN ScraperInitUnconfigured
                 ELSE [pc |-> "jsearch_request", outcome |-> "running",
                       supabase |-> "client"] IN
       /\ pc' = to.pc
       /\ outcome' = to.outcome
       /\ supabase' = to.supabase
    /\ UNCHANGED <<entry, env, qi, resp, jobs, all_jobs, log, file, sinkCalls,
                   ins, arg, ret>>

\* the except clause leaving the loop
AfterFetchErrorLeaves(q) == Len(Queries) + 1

\* where the loop of _fetch_jsearch_jobs goes on after the except clause
AfterFetchError(q) == q + 1

\* where the body of the loop goes after a response (200 or not): time.sleep
AfterResponse == "jsearch_sleep"

\* one iteration of _fetch_jsearch_jobs up to its time.sleep: the request,
\* and the parsing of a 200 response; a raising request goes to the except
\* clause and from there to the next query
JsearchRequest ==
    /\ entry = "scraper" /\ pc = "jsearch_request" /\ qi <= Len(Queries)
    /\ \E r \in Responses(JsearchItems, MaxFetched - Fetched(log)) :
        /\ log' = Append(log, [ev |-> "request", query |-> Queries[qi], resp |-> r])
        /\ IF r.kind = "exception"
           THEN /\ qi' = AfterFetchError(qi)
                /\ UNCHANGED <<pc, jobs>>
           ELSE /\ jobs' = IF r.kind = "ok"
                           THEN jobs \o ParseAll(r.data, "jsearch")
                           ELSE jobs
                /\ pc' = AfterResponse
                /\ UNCHANGED qi
    /\ UNCHANGED <<entry, env, supabase, resp, all_jobs, outcome, file,
                   sinkCalls, ins, arg, ret>>

\* time.sleep(0.5), the end of the try block of the iteration
JsearchSleep ==
    /\ entry = "scraper" /\ pc = "jsearch_sleep"
    /\ log' = Append(log, [ev |-> "sleep", query |-> Queries[qi], resp |-> NoResp])
    /\ qi' = qi + 1
    /\ pc' = "jsearch_request"
    /\ UNCHANGED <<entry, env, supabase, resp, jobs, all_jobs, outcome, file,
                   sinkCalls, ins, arg, ret>>

\* return jobs, and all_jobs.extend(jsearch_jobs) in run
JsearchReturn ==
    /\ entry = "scraper" /\ pc = "jsearch_request" /\ qi > Len(Queries)
    /\ all_jobs' = all_jobs \o jobs
    /\ jobs' = <<>>
    /\ pc' = "active_request"
    /\ UNCHANGED <<entry, env, supabase, qi, resp, log, outcome, file,
                   sinkCalls, ins, arg, ret>>

\* _fetch_active_jobs_db, and all_jobs.extend(active_jobs_db_jobs) in run
ActiveFetch ==
    /\ entry = "scraper" /\ pc = "active_request"
    /\ \E r \in Responses(ActiveItems, MaxFetched - Fetched(log)) :
        /\ resp' = r
        /\ all_jobs' = IF r.kind = "ok"
                       THEN all_jobs \o ParseAll(r.data, "active")
                       ELSE all_jobs
    /\ pc' = "dedupe"
    /\ UNCHANGED <<entry, env, supabase, qi, jobs, log, outcome, file,
                   sinkCalls, ins, arg, ret>>

\* the remote sink called before the file sink
SinksRemoteFirst == <<"insert", "save", "return">>

\* the steps of run after _print_results, in order
ScraperSinks == <<"save", "insert", "return">>

\* the step of run after the step at pc
NextSink(at) ==
    LET k == CHOOSE j \in 1..Len(ScraperSinks) : ScraperSinks[j] = at IN
    ScraperSinks[k + 1]

\* all_jobs = self._remove_duplicates(all_jobs), uncaught in run, and
\* _print_results
Dedupe ==
    /\ entry = "scraper" /\ pc = "dedupe"
    /\ LET r == RemoveDuplicates(all_jobs) IN
        IF r.raised
        THEN /\ pc' = "done"
             /\ outcome' = "raised"
             /\ UNCHANGED all_jobs
        ELSE /\ all_jobs' = r.value
             /\ pc' = ScraperSinks[1]
             /\ UNCHANGED outcome
    /\ UNCHANGED <<entry, env, supabase, qi, resp, jobs, log, file, sinkCalls,
                   ins, arg, ret>>

\* _save_to_json: the write succeeds, or raises and is caught
SaveToJson ==
    /\ entry = "scraper" /\ pc = "save"
    /\ \E ok \in BOOLEAN :
        /\ sinkCalls' = Append(sinkCalls, [sink |-> "file", ok |-> ok])
        /\ file' = IF ok THEN Document(all_jobs) ELSE file
    /\ pc' = NextSink("save")
    /\ UNCHANGED <<entry, env, supabase, qi, resp, jobs, all_jobs, log, outcome,
                   ins, arg, ret>>

\* return all_jobs
ScraperReturn ==
    /\ entry = "scraper" /\ pc = "return"
    /\ outcome' = "returned"
    /\ pc' = "done"
    /\ UNCHANGED <<entry, env, supabase, qi, resp, jobs, all_jobs, log, file,
                   sinkCalls, ins, arg, ret>>

-----------------------------------------------------------------------------
(* _insert_to_supabase, of both files *)

BatchSizeScraper == 100

BatchSizeLinkedin == 50

batch_size == IF entry = "linkedin" THEN BatchSizeLinkedin ELSE BatchSizeScraper

\* the list handed to _insert_to_supabase
SinkJobs == IF entry = "linkedin" THEN jobs ELSE all_jobs

\* jobs[i:i + batch_size]
BatchOf(js, i, b) == SubSeq(js, i + 1, Min(i + b, Len(js)))

\* a failed insert call ending the loop
AfterBatchFailureLeaves(st, js, b, ok) ==
    LET batch == BatchOf(js, st.i, b) IN
    [ i |-> IF ok THEN st.i + b ELSE Len(js),
      total_inserted |-> st.total_inserted + (IF ok THEN Len(batch) ELSE 0),
      total_failed |-> st.total_failed + (IF ok THEN 0 ELSE Len(batch)),
      attempts |-> Append(st.attempts, [batch |-> batch, ok |-> ok]) ]

\* one iteration of the loop over range(0, len(jobs), batch_size): the
\* insert call returned (ok) or raised and was caught
AfterBatch(st, js, b, ok) ==
    LET batch == BatchOf(js, st.i, b) IN
    [ i |-> st.i + b,
      total_inserted |-> st.total_inserted + (IF ok THEN Len(batch) ELSE 0),
      total_failed |-> st.total_failed + (IF ok THEN 0 ELSE Len(batch)),
      attempts |-> Append(st.attempts, [batch |-> batch, ok |-> ok]) ]

\* the call of _insert_to_supabase: in linkedin.py under "if supabase:"
InsertStart ==
    /\ pc = "insert"
    /\ entry = "linkedin" => supabase = "client"
    /\ sinkCalls' = Append(sinkCalls, [sink |-> "remote", ok |-> TRUE])
    /\ ins' = NoInsert
    /\ pc' = "insert_loop"
    /\ UNCHANGED <<entry, env, supabase, qi, resp, jobs, all_jobs, log, outcome,
                   file, arg, ret>>

InsertBatch ==
    /\ pc = "insert_loop" /\ ins.i < Len(SinkJobs)
    /\ \E ok \in BOOLEAN : ins' = AfterBatch(ins, SinkJobs, batch_size, ok)
    /\ UNCHANGED <<entry, pc, env, supabase, qi, resp, jobs, all_jobs, log,
                   outcome, file, sinkCalls, arg, ret>>

\* the loop is exhausted: the totals are printed and the routine returns
InsertEnd ==
    /\ pc = "insert_loop" /\ ins.i >= Len(SinkJobs)
    /\ pc' = IF entry = "linkedin" THEN "finish" ELSE NextSink("insert")
    /\ UNCHANGED <<entry, env, supabase, qi, resp, jobs, all_jobs, log, outcome,
                   file, sinkCalls, ins, arg, ret>>

-----------------------------------------------------------------------------
(* scrape_linkedin_jobs *)

Dash == Str(<<"-">>)

\* "Job description not available in list view"
Placeholder == Str(<<"n", "/", "a">>)

Elements == {"logo", "title", "company", "location", "url"}

\* A DOM item: whether its job card is found, and for each element looked up
\* in the card its text (or attribute), None standing for a lookup that raises
DomItem(card, title, company) ==
    [ card |-> card,
      el |-> [e \in Elements |->
                CASE e = "title" -> title
                  [] e = "company" -> company
                  [] OTHER -> Str(<<"x">>)] ]

DomItems ==
    { DomItem(TRUE, Str(<<"a">>), Str(<<"b">>)),
      DomItem(TRUE, PyNone, EmptyStr),
      DomItem(FALSE, Str(<<"a">>), Str(<<"b">>)) }

\* job_data of one item: "-" by default, the element's text or "-"
LinkedinJobData(item) ==
    [f \in Fields |->
        IF f = "description" THEN Placeholder
        ELSE IF item.el[f].tag = "str" THEN Or(item.el[f], Dash) ELSE Dash]

\* the unconfigured environment raising, as it does in JobsScraper.__init__
LinkedinUnconfiguredRaises == [pc |-> "done", outcome |-> "raised", supabase |-> "unset"]

\* the client of scrape_linkedin_jobs with the environment unconfigured
LinkedinUnconfigured == [pc |-> "open", outcome |-> "running", supabase |-> "None"]

\* lines 28-37: the client, or None with a warning
LinkedinInit ==
    /\ entry = "linkedin" /\ pc = "init"
    /\ LET to == IF Unconfigured THEN LinkedinUnconfigured
                 ELSE [pc |-> "open", outcome |-> "running", supabase |-> "client"] IN
       /\ pc' = to.pc
       /\ outcome' = to.outcome
       /\ supabase' = to.supabase
    /\ UNCHANGED <<entry, env, qi, resp, jobs, all_jobs, log, file, sinkCalls,
                   ins, arg, ret>>

\* the except clause of the outer try: the error is printed and the function
\* returns
LinkedinExcept ==
    /\ pc' = "done"
    /\ outcome' = "returned"

\* the driver is set up, the page opened and the list of items found; any of
\* these raising goes to the outer except clause
LinkedinOpen ==
    /\ entry = "linkedin" /\ pc = "open"
    /\ \E r \in Responses(DomItems, MaxFetched) \ {[kind |-> "status", data |-> <<>>]} :
        /\ resp' = r
        /\ IF r.kind = "exception"
           THEN LinkedinExcept /\ UNCHANGED <<qi, jobs>>
           ELSE /\ qi' = 1
                /\ jobs' = <<>>
                /\ pc' = "scrape"
                /\ UNCHANGED outcome
    /\ UNCHANGED <<entry, env, supabase, all_jobs, log, file, sinkCalls, ins,
                   arg, ret>>

\* one iteration of the loop over job_items: the item without a job card
\* raises and is skipped
LinkedinScrapeItem ==
    /\ entry = "linkedin" /\ pc = "scrape" /\ qi <= Len(resp.data)
    /\ jobs' = IF resp.data[qi].card
               THEN Append(jobs, LinkedinJobData(resp.data[qi]))
               ELSE jobs
    /\ qi' = qi + 1
    /\ UNCHANGED <<entry, pc, env, supabase, resp, all_jobs, log, outcome, file,
                   sinkCalls, ins, arg, ret>>

\* the output file is written; open or json.dump raising goes to the outer
\* except clause
LinkedinSave ==
    /\ entry = "linkedin" /\ pc = "scrape" /\ qi > Len(resp.data)
    /\ \E ok \in BOOLEAN :
        /\ sinkCalls' = Append(sinkCalls, [sink |-> "file", ok |-> ok])
        /\ IF ok
           THEN /\ file' = Document(jobs)
                /\ pc' = "insert"
                /\ UNCHANGED outcome
           ELSE LinkedinExcept /\ UNCHANGED file
    /\ UNCHANGED <<entry, env, supabase, qi, resp, jobs, all_jobs, log, ins,
                   arg, ret>>

\* else: print("Skipping database insertion - Supabase not configured.")
LinkedinSkipInsert ==
    /\ entry = "linkedin" /\ pc = "insert" /\ supabase # "client"
    /\ pc' = "finish"
    /\ UNCHANGED <<entry, env, supabase, qi, resp, jobs, all_jobs, log, outcome,
                   file, sinkCalls, ins, arg, ret>>

\* time.sleep(10); driver.quit(), which returns or raises into the outer
\* except clause: the function returns either way
LinkedinFinish ==
    /\ entry = "linkedin" /\ pc = "finish"
    /\ LinkedinExcept
    /\ UNCHANGED <<entry, env, supabase, qi, resp, jobs, all_jobs, log, file,
                   sinkCalls, ins, arg, ret>>

-----------------------------------------------------------------------------
(* The two programs, each from its start *)

Init ==
    /\ entry \in {"scraper", "linkedin"}
    /\ env \in [SUPABASE_URL : BOOLEAN, SUPABASE_KEY : BOOLEAN]
    /\ pc = "init"
    /\ supabase = "unset"
    /\ qi = 1
    /\ resp = NoResp
    /\ jobs = <<>>
    /\ all_jobs = <<>>
    /\ log = <<>>
    /\ outcome = "running"
    /\ file = NoFile
    /\ sinkCalls = <<>>
    /\ ins = NoInsert
    /\ arg = PyNone
    /\ ret = PyNone

Next ==
    \/ ScraperInit
    \/ JsearchRequest
    \/ JsearchSleep
    \/ JsearchReturn
    \/ ActiveFetch
    \/ Dedupe
    \/ SaveToJson
    \/ InsertStart
    \/ InsertBatch
    \/ InsertEnd
    \/ ScraperReturn
    \/ LinkedinInit
    \/ LinkedinOpen
    \/ LinkedinScrapeItem
    \/ LinkedinSave
    \/ LinkedinSkipInsert
    \/ LinkedinFinish

Spec == Init /\ [][Next]_vars

-----------------------------------------------------------------------------
(* _remove_duplicates called on its own, on every list of at most MaxLen    *)
(* listings whose title and company are None, empty or a short string      *)

DedupTitles == {PyNone, EmptyStr, Str(<<"a">>), Str(<<"A">>), Str(<<"a", "_">>)}

DedupCompanies == {PyNone, EmptyStr, Str(<<"b">>), Str(<<"_", "b">>)}

Listing(title, company) ==
    [f \in Fields |->
        CASE f = "title" -> title
          [] f = "company" -> company
          [] OTHER -> Str(<<"x">>)]

DedupListings == {Listing(t, c) : t \in DedupTitles, c \in DedupCompanies}

InitDedup ==
    /\ entry = "scraper"
    /\ env = [SUPABASE_URL |-> TRUE, SUPABASE_KEY |-> TRUE]
    /\ pc = "call"
    /\ supabase = "client"
    /\ qi = 1
    /\ resp = NoResp
    /\ jobs = <<>>
    /\ all_jobs = <<>>
    /\ log = <<>>
    /\ outcome = "running"
    /\ file = NoFile
    /\ sinkCalls = <<>>
    /\ ins = NoInsert
    /\ arg \in SeqsUpTo(DedupListings, MaxLen)
    /\ ret = PyNone

CallRemoveDuplicates ==
    /\ pc = "call"
    /\ ret' = RemoveDuplicates(arg)
    /\ pc' = "deduped"
    /\ UNCHANGED <<entry, env, supabase, qi, resp, jobs, all_jobs, log, outcome,
                   file, sinkCalls, ins, arg>>

\* _remove_duplicates called on the list it returned for arg: jobs is the
\* parameter of this second call
CallRemoveDuplicatesAgain ==
    /\ pc = "deduped" /\ ~ret.raised
    /\ jobs' = ret.value
    /\ ret' = RemoveDuplicates(ret.value)
    /\ pc' = "deduped_again"
    /\ UNCHANGED <<entry, env, supabase, qi, resp, all_jobs, log, outcome,
                   file, sinkCalls, ins, arg>>

NextDedup ==
    \/ CallRemoveDuplicates
    \/ CallRemoveDuplicatesAgain

SpecDedup == InitDedup /\ [][NextDedup]_vars

-----------------------------------------------------------------------------
(* _insert_to_supabase called on its own, on every list of at most         *)
(* MaxSinkJobs listings, with either file's batch size                     *)

\* the k-th listing of a list handed to the sink: its url holds k
SinkListing(k) ==
    [f \in Fields |-> IF f = "url" THEN Str(<<k>>) ELSE Str(<<"x">>)]

InitSink ==
    /\ entry \in {"scraper", "linkedin"}
    /\ env = [SUPABASE_URL |-> TRUE, SUPABASE_KEY |-> TRUE]
    /\ pc = "insert"
    /\ supabase = "client"
    /\ qi = 1
    /\ resp = NoResp
    /\ \E n \in 0..MaxSinkJobs :
        LET js == [k \in 1..n |-> SinkListing(k)] IN
        /\ jobs = IF entry = "linkedin" THEN js ELSE <<>>
        /\ all_jobs = IF entry = "linkedin" THEN <<>> ELSE js
    /\ log = <<>>
    /\ outcome = "running"
    /\ file = NoFile
    /\ sinkCalls = <<>>
    /\ ins = NoInsert
    /\ arg = PyNone
    /\ ret = PyNone

NextSinkStep ==
    \/ InsertStart
    \/ InsertBatch
    \/ InsertEnd

SpecSink == InitSink /\ [][NextSinkStep]_vars

-----------------------------------------------------------------------------
(* The extractors called on their own.  A raw record is a dict in which    *)
(* the candidate keys of one target field take every combination of        *)
(* missing, None, empty and non-empty, the other keys being all missing or *)
(* all non-empty; or it is no dict at all (None).                          *)

JsearchGroups ==
    { {"employer_logo"}, {"job_title"}, {"job_description"}, {"employer_name"},
      {"job_city", "job_country", "job_location"},
      {"job_apply_link", "job_google_link"} }

ActiveGroups ==
    { {"description"}, {"logo", "company_logo"}, {"title", "job_title", "name"},
      {"company", "company_name", "employer"}, {"location", "city", "country"},
      {"url", "link", "job_url"} }

DescriptionKeys == {"job_description", "description"}

Kinds == {"missing", "None", "empty", "full"}

MarkupKinds == {"markup", "tagonly"}

KindsFor(k) == IF k \in DescriptionKeys THEN Kinds \cup MarkupKinds ELSE Kinds

\* the non-empty text of key k, different for the candidates of one field
TextFor(k) ==
    CASE k \in {"job_city", "city"} -> <<"P">>
      [] k \in {"job_country", "country"} -> <<"F">>
      [] k \in {"job_location", "location"} -> <<"L">>
      [] k \in DescriptionKeys -> <<"d">>
      [] k \in {"employer_logo", "logo", "title", "company", "url",
                "job_apply_link", "employer_name"} -> <<"1">>
      [] k \in {"company_logo", "job_title", "company_name", "link",
                "job_google_link"} -> <<"2">>
      [] OTHER -> <<"3">>

RawValue(k, kind) ==
    CASE kind = "None" -> PyNone
      [] kind = "empty" -> EmptyStr
      [] kind = "full" -> Str(TextFor(k))
      [] kind = "markup" -> Str(<<"<", "b", ">">> \o TextFor(k) \o <<"<", "/", "b", ">">>)
      [] kind = "tagonly" -> Str(<<"<", "b", "r", ">">>)

\* the dict with the keys of group g as assigned by a, and every other key
\* of keys missing (base "missing") or non-empty (base "full")
RawDict(keys, base, g, a) ==
    [k \in {x \in keys : IF x \in g THEN a[x] # "missing" ELSE base = "full"} |->
        RawValue(k, IF k \in g THEN a[k] ELSE "full")]

RawDicts(groups) ==
    LET keys == UNION groups IN
    UNION { UNION { { RawDict(keys, base, g, a) :
                        a \in {x \in [g -> Kinds \cup MarkupKinds] :
                                  \A k \in g : x[k] \in KindsFor(k)} }
                    : g \in groups }
            : base \in {"missing", "full"} }

RawInputs == RawDicts(JsearchGroups) \cup RawDicts(ActiveGroups) \cup {PyNone}

InitParse ==
    /\ entry = "scraper"
    /\ env = [SUPABASE_URL |-> TRUE, SUPABASE_KEY |-> TRUE]
    /\ pc = "call"
    /\ supabase = "client"
    /\ qi = 1
    /\ resp = NoResp
    /\ jobs = <<>>
    /\ all_jobs = <<>>
    /\ log = <<>>
    /\ outcome = "running"
    /\ file = NoFile
    /\ sinkCalls = <<>>
    /\ ins = NoInsert
    /\ arg \in RawInputs
    /\ ret = PyNone

CallParseJsearchJob ==
    /\ pc = "call"
    /\ ret' = ParseJsearchJob(arg)
    /\ pc' = "parsed_jsearch"
    /\ UNCHANGED <<entry, env, supabase, qi, resp, jobs, all_jobs, log, outcome,
                   file, sinkCalls, ins, arg>>

CallParseActiveJobsDbJob ==
    /\ pc = "call"
    /\ ret' = ParseActiveJobsDbJob(arg)
    /\ pc' = "parsed_active"
    /\ UNCHANGED <<entry, env, supabase, qi, resp, jobs, all_jobs, log, outcome,
                   file, sinkCalls, ins, arg>>

NextParse ==
    \/ CallParseJsearchJob
    \/ CallParseActiveJobsDbJob

SpecParse == InitParse /\ [][NextParse]_vars

-----------------------------------------------------------------------------
(* Deduplication: C1, C2 *)

\* the text of a title or company, an absent one having none
TextOf(v) == IF v.tag = "str" THEN v.s ELSE <<>>

\* lowercase(title) + "_" + lowercase(company)
ClaimKey(job) == Lower(TextOf(job["title"])) \o <<"_">> \o Lower(TextOf(job["company"]))

\* the listings of js from the i-th on that have a non-degenerate key no
\* earlier listing of js has
RECURSIVE FirstPerKeyFrom(_, _)
FirstPerKeyFrom(js, i) ==
    IF i > Len(js) THEN <<>>
    ELSE (IF /\ ClaimKey(js[i]) # <<"_">>
             /\ \A j \in 1..(i - 1) : ClaimKey(js[j]) # ClaimKey(js[i])
          THEN <<js[i]>> ELSE <<>>) \o FirstPerKeyFrom(js, i + 1)

\* C1: on every list of normalised listings _remove_duplicates returns the
\* subsequence holding, for each distinct non-degenerate key, exactly the
\* first listing with that key.
C1_FirstPerKey ==
    pc = "deduped" => ~ret.raised /\ ret.value = FirstPerKeyFrom(arg, 1)

\* title and company both absent (None), or both empty
Degenerate(job) ==
    \/ job["title"] = PyNone /\ job["company"] = PyNone
    \/ job["title"] = EmptyStr /\ job["company"] = EmptyStr

\* C2: a listing whose title and company are both absent or both empty is
\* never in the output of _remove_duplicates, which returns normally; the
\* list of one such listing gives the empty list.
C2_DegenerateDropped ==
    (pc = "deduped" /\ \E i \in 1..Len(arg) : Degenerate(arg[i]))
        => /\ ~ret.raised
           /\ \A j \in 1..Len(ret.value) : ~Degenerate(ret.value[j])
           /\ Len(arg) = 1 => ret.value = <<>>

-----------------------------------------------------------------------------
(* The run of JobsScraper: C3, C5, C6 *)

\* __init__ returned, so that run was called
RunCalled == entry = "scraper" /\ supabase = "client"

\* C3: run never raises: whatever the fetches delivered and whatever the
\* sinks did, a run that has ended went through the file sink and returned.
C3_RunNeverRaises ==
    (RunCalled /\ pc = "done")
        => /\ outcome = "returned"
           /\ sinkCalls # <<>>
           /\ sinkCalls[1].sink = "file"

\* the requests of the log, in order
RequestsOf(l) == SelectSeq(l, LAMBDA e : e.ev = "request")

\* the listings of the successful requests of the log, in order
RECURSIVE ListingsOf(_)
ListingsOf(l) ==
    IF l = <<>> THEN <<>>
    ELSE (IF Head(l).ev = "request" /\ Head(l).resp.kind = "ok"
          THEN ParseAll(Head(l).resp.data, "jsearch") ELSE <<>>)
            \o ListingsOf(Tail(l))

\* C5: a JSearch sub-fetch that failed (status or exception) contributes no
\* listing and aborts nothing: every query is requested, in the fixed order,
\* the listings of the successful queries are what the fetch returns, and
\* the Active Jobs DB fetch follows.
C5_FailedFetchIsolated ==
    RunCalled =>
        /\ pc \in {"jsearch_request", "jsearch_sleep"} => jobs = ListingsOf(log)
        /\ pc \notin {"jsearch_request", "jsearch_sleep"} =>
              [k \in 1..Len(RequestsOf(log)) |-> RequestsOf(log)[k].query] = Queries
        /\ pc = "active_request" => all_jobs = ListingsOf(log)
        /\ pc \notin {"jsearch_request", "jsearch_sleep", "active_request"} =>
              resp.kind # "none"

C5_Witness ==
    /\ RunCalled /\ pc = "dedupe"
    /\ Len(log) > 2
    /\ log[1].resp.kind = "exception"
    /\ log[2].resp.kind = "status"
    /\ \E k \in 1..Len(log) : log[k].ev = "request" /\ Len(log[k].resp.data) > 0
    /\ Len(all_jobs) = MaxFetched
    /\ resp.kind = "ok"

\* C6: between two consecutive requests of _fetch_jsearch_jobs there is a
\* delay, whatever the outcome of the earlier one.
C6_DelayBetweenRequests ==
    \A k \in 1..(Len(log) - 1) : log[k].ev = "request" => log[k + 1].ev = "sleep"

-----------------------------------------------------------------------------
(* Configuration and the order of the sinks: C7, C8 *)

FetchStarted == log # <<>> \/ resp # NoResp

RemoteCalled == \E k \in 1..Len(sinkCalls) : sinkCalls[k].sink = "remote"

\* C7 as stated: without the endpoint or the credential either program
\* still fetches and writes the file; only the remote insert is disabled.
C7_AbsenceNotFatal ==
    (Unconfigured /\ pc = "done") => (outcome # "raised" /\ FetchStarted)

\* C7 as amended: without the endpoint or the credential,
\* scrape_linkedin_jobs still fetches, writes the file once the fetch has
\* succeeded and never calls the remote insert, while JobsScraper.__init__
\* raises ValueError before any fetch or file write.
C7_AbsenceFatalOnlyInScraper ==
    Unconfigured =>
        /\ ~RemoteCalled /\ ins = NoInsert
        /\ entry = "linkedin" =>
              /\ outcome # "raised"
              /\ pc = "done" => FetchStarted
              /\ (pc = "done" /\ resp.kind = "ok") => sinkCalls # <<>>
              /\ pc \in {"insert", "finish"} => file = Document(jobs)
        /\ entry = "scraper" =>
              /\ pc \in {"init", "done"}
              /\ pc = "done" => outcome = "raised"
              /\ ~FetchStarted /\ sinkCalls = <<>> /\ file = NoFile

C7_Witness ==
    /\ entry = "linkedin" /\ Unconfigured /\ pc = "done"
    /\ Len(jobs) > 0
    /\ file = Document(jobs)
    /\ ~RemoteCalled

\* C8: in both programs the file sink is invoked in every run that reaches
\* the persistence stage, and before the remote sink; whatever the remote
\* sink does, a file that was written stays as written and the run ends
\* normally.
C8_FileBeforeRemote ==
    /\ \A k \in 1..Len(sinkCalls) :
          sinkCalls[k].sink = "remote" => (k = 2 /\ sinkCalls[1].sink = "file")
    /\ pc \in {"insert", "insert_loop", "return", "finish"} => sinkCalls # <<>>
    /\ (sinkCalls # <<>> /\ sinkCalls[1].sink = "file" /\ sinkCalls[1].ok)
          => file = Document(SinkJobs)
    /\ (pc = "done" /\ RemoteCalled) => outcome = "returned"

C8_Witness ==
    /\ pc = "done" /\ RemoteCalled
    /\ Len(SinkJobs) > 0
    /\ ins.total_inserted = 0 /\ ins.total_failed = Len(SinkJobs)
    /\ file = Document(SinkJobs)
    /\ outcome = "returned"

-----------------------------------------------------------------------------
(* The remote sink: C4 *)

Ceil(n, b) == (n + b - 1) \div b

RECURSIVE SizeOf(_, _)
SizeOf(attempts, ok) ==
    IF attempts = <<>> THEN 0
    ELSE (IF Head(attempts).ok = ok THEN Len(Head(attempts).batch) ELSE 0)
            + SizeOf(Tail(attempts), ok)

\* C4: the insert calls are made over the consecutive slices of size
\* batch_size of the list, the last possibly shorter; a failed call stops
\* nothing: ceil(n / batch_size) calls are made, and at the end
\* total_inserted and total_failed are the sizes of the batches that were
\* inserted and that failed, which add up to n.
C4_BatchIsolation ==
    LET n == Len(SinkJobs)
        b == batch_size IN
    /\ \A k \in 1..Len(ins.attempts) :
          ins.attempts[k].batch = SubSeq(SinkJobs, (k - 1) * b + 1, Min(k * b, n))
    /\ ins.total_inserted = SizeOf(ins.attempts, TRUE)
    /\ ins.total_failed = SizeOf(ins.attempts, FALSE)
    /\ pc \notin {"insert", "insert_loop"} =>
          /\ Len(ins.attempts) = Ceil(n, b)
          /\ ins.total_inserted + ins.total_failed = n

C4_Witness ==
    /\ entry = "linkedin" /\ pc = "finish"
    /\ Len(SinkJobs) = 120
    /\ [k \in 1..Len(ins.attempts) |-> ins.attempts[k].ok] = <<TRUE, FALSE, TRUE>>
    /\ Len(ins.attempts[3].batch) = 20
    /\ ins.total_inserted = 70 /\ ins.total_failed = 50

-----------------------------------------------------------------------------
(* The extractors: C9, C10 *)

\* the candidate keys of a target field, in the declared order; the JSearch
\* location is composed instead (C10)
Candidates(source, f) ==
    IF source = "jsearch"
    THEN CASE f = "logo" -> <<"employer_logo">>
           [] f = "title" -> <<"job_title">>
           [] f = "description" -> <<"job_description">>
           [] f = "company" -> <<"employer_name">>
           [] f = "url" -> <<"job_apply_link", "job_google_link">>
    ELSE CASE f = "logo" -> <<"logo", "company_logo">>
           [] f = "title" -> <<"title", "job_title", "name">>
           [] f = "description" -> <<"description">>
           [] f = "company" -> <<"company", "company_name", "employer">>
           [] f = "location" -> <<"location", "city">>
           [] f = "url" -> <<"url", "link", "job_url">>

PlainFields(source) == IF source = "jsearch" THEN Fields \ {"location"} ELSE Fields

\* the value of the first key of ks that is neither None nor empty in d, and
\* otherwise the value rest
RECURSIVE FirstNonEmpty(_, _, _)
FirstNonEmpty(d, ks, rest) ==
    IF ks = <<>> THEN rest
    ELSE IF Truthy(Get(d, Head(ks), PyNone)) THEN Get(d, Head(ks), PyNone)
    ELSE FirstNonEmpty(d, Tail(ks), rest)

\* markup is stripped from a description
AsField(f, v) == IF f = "description" THEN CleanDescription(v) ELSE v

Parsed == pc \in {"parsed_jsearch", "parsed_active"} /\ IsDict(arg)

SourceParsed == IF pc = "parsed_jsearch" THEN "jsearch" ELSE "active"

\* C9 as stated: every field is the first candidate value that is neither
\* null nor empty, and the absence sentinel (never an empty string) when
\* there is none; the six fields are always present.
C9_FirstNonEmptyOrSentinel ==
    Parsed =>
        /\ DOMAIN ret = Fields
        /\ \A f \in PlainFields(SourceParsed) :
              ret[f] = AsField(f, FirstNonEmpty(arg, Candidates(SourceParsed, f), PyNone))

\* C9 as amended: every field is the first candidate value that is neither
\* null nor empty; when there is none it is the value of the last candidate
\* key, which is None when that key is missing or null and the empty string
\* when that key holds the empty string; so a field all of whose candidate
\* keys are missing or null is None.  A description is stripped of its
\* markup.  The six fields are always present.
C9_FirstNonEmptyOrLast ==
    Parsed =>
        /\ DOMAIN ret = Fields
        /\ \A f \in PlainFields(SourceParsed) :
              LET ks == Candidates(SourceParsed, f) IN
              /\ ret[f] = AsField(f, FirstNonEmpty(arg, ks, Get(arg, ks[Len(ks)], PyNone)))
              /\ (\A k \in 1..Len(ks) : Get(arg, ks[k], PyNone) = PyNone)
                    => ret[f] = PyNone

C9_Witness ==
    /\ pc = "parsed_active"
    /\ "title" \in DOMAIN arg /\ arg["title"] = EmptyStr
    /\ "job_title" \notin DOMAIN arg
    /\ "name" \in DOMAIN arg /\ Truthy(arg["name"])
    /\ ret["title"] = arg["name"]
    /\ "url" \notin DOMAIN arg /\ "link" \notin DOMAIN arg /\ "job_url" \notin DOMAIN arg
    /\ ret["url"] = PyNone

\* the location the claim describes, from a city-like, a country-like and a
\* generic location key
Composed(d, city, country, generic) ==
    LET c == Get(d, city, PyNone)
        n == Get(d, country, PyNone) IN
    CASE Truthy(c) /\ Truthy(n) -> Str(c.s \o <<",", " ">> \o n.s)
      [] Truthy(c) /\ ~Truthy(n) -> c
      [] ~Truthy(c) /\ Truthy(n) -> n
      [] OTHER -> Get(d, generic, PyNone)

\* equal, or both absent (None or empty)
SameOrAbsent(a, b) == a = b \/ (~Truthy(a) /\ ~Truthy(b))

-----------------------------------------------------------------------------
(* Extraction failures: C11 *)

\* the records of a response whose extraction does not fail, in order
Extractable(data) == SelectSeq(data, IsDict)

\* their listings, one for each, in the same order
ExtractedFrom(data, source) ==
    LET ok == Extractable(data) IN
    [k \in 1..Len(ok) |-> IF source = "jsearch" THEN ParseJsearchJob(ok[k])
                          ELSE ParseActiveJobsDbJob(ok[k])]

\* the same over the JSearch responses of the log
RECURSIVE ExtractedFromLog(_)
ExtractedFromLog(l) ==
    IF l = <<>> THEN <<>>
    ELSE ExtractedFrom(Head(l).resp.data, "jsearch") \o ExtractedFromLog(Tail(l))

\* the DOM items among the first n whose job card is found, as listings
CardItems(items, n) ==
    LET ok == SelectSeq(SubSeq(items, 1, n), LAMBDA it : it.card) IN
    [k \in 1..Len(ok) |-> LinkedinJobData(ok[k])]

\* C11: a record whose extraction fails is the only one left out: the
\* accumulated list holds one listing for every other record of the fetch,
\* those before it and those after it, in the order of the records, and the
\* failure does not leave the fetch.
C11_OnlyFailingRecordDropped ==
    /\ RunCalled =>
          /\ pc \in {"jsearch_request", "jsearch_sleep"} =>
                jobs = ExtractedFromLog(log) /\ outcome = "running"
          /\ pc = "active_request" =>
                all_jobs = ExtractedFromLog(log) /\ outcome = "running"
          /\ pc = "dedupe" =>
                /\ all_jobs = ExtractedFromLog(log) \o ExtractedFrom(resp.data, "active")
                /\ outcome = "running"
    /\ (entry = "linkedin" /\ pc = "scrape") =>
          jobs = CardItems(resp.data, qi - 1) /\ outcome = "running"
    /\ (entry = "linkedin" /\ pc \in {"insert", "insert_loop", "finish", "done"}) =>
          jobs = CardItems(resp.data, Len(resp.data))

C11_Witness ==
    /\ RunCalled /\ pc = "jsearch_sleep"
    /\ LET data == log[Len(log)].resp.data IN
       /\ Len(data) = 3
       /\ IsDict(data[1]) /\ ~IsDict(data[2]) /\ IsDict(data[3])
       /\ data[1] # data[3]
       /\ jobs = <<ParseJsearchJob(data[1]), ParseJsearchJob(data[3])>>

-----------------------------------------------------------------------------
(* Deduplication again: C12, C13 *)

\* C12: on a list _remove_duplicates returned, _remove_duplicates returns
\* that same list, element for element.
C12_Idempotent ==
    pc = "deduped_again" => ~ret.raised /\ ret.value = jobs

\* the first call dropped a listing and left listings of two keys, and the
\* second call returned what it was given
C12_Witness ==
    /\ pc = "deduped_again"
    /\ ~ret.raised
    /\ Len(arg) = 3 /\ Len(jobs) = 2
    /\ DedupKey(jobs[1]) # DedupKey(jobs[2])
    /\ ret.value = jobs

\* the same title and the same company, case apart
SameTitleAndCompany(a, b) ==
    /\ Lower(TextOf(a["title"])) = Lower(TextOf(b["title"]))
    /\ Lower(TextOf(a["company"])) = Lower(TextOf(b["company"]))

\* the listings of js from the i-th on that have a title or a company and
\* differ in title or in company, case apart, from every earlier one
RECURSIVE FirstPerTitleAndCompanyFrom(_, _)
FirstPerTitleAndCompanyFrom(js, i) ==
    IF i > Len(js) THEN <<>>
    ELSE (IF /\ ~(TextOf(js[i]["title"]) = <<>> /\ TextOf(js[i]["company"]) = <<>>)
             /\ \A j \in 1..(i - 1) : ~SameTitleAndCompany(js[j], js[i])
          THEN <<js[i]>> ELSE <<>>) \o FirstPerTitleAndCompanyFrom(js, i + 1)

\* C13: of the listings that have a title or a company, _remove_duplicates
\* drops exactly those whose title and company both equal, case apart, those
\* of an earlier listing; listings that differ in title or in company are
\* both kept, underscores in them or not.
C13_DroppedOnlyOnSameTitleAndCompany ==
    (pc = "deduped" /\ ~ret.raised)
        => ret.value = FirstPerTitleAndCompanyFrom(arg, 1)

====
